---- MODULE Spec2Model ----
(***************************************************************************)
(* A model of convert_mermaid.py: the block locator, the content namer,    *)
(* the path resolver, the two rewrite strategies and process_file.         *)
(*                                                                         *)
(* Text is a sequence of tokens.  Each token stands for a fixed string of  *)
(* the document and has that string's length in characters, so that the    *)
(* look-ahead windows of the rewrite strategies are measured in characters *)
(* as in the code.  Offsets are 0-based and end-exclusive, as in Python.   *)
(*   F   "```"            M   "mermaid"       NL  "\n"       SP  " "       *)
(*   A, B, T  one plain character             P   a long run of plain text *)
(*   IMG  "![<stem> diagram](<rel>)"                                       *)
(*   MARK "<!-- mmd-rendered:<name> -->"                                   *)
(***************************************************************************)
EXTENDS Integers, Sequences, FiniteSets, TLC

(***************************************************************************)
(* Bounds of the model.                                                    *)
(***************************************************************************)
MaxSegs == 3
MaxRuns == 2
\* runs of process_file in a behaviour of SpecLong
MaxLongRuns == 3
\* segments of a document of SpecWide
MaxWideSegs == 4
MaxLocLen == 7
MaxDirLen == 4
MaxIdx == 2
MaxNamings == 2
\* documents in a batch of main
MaxBatch == 2
PadLen == 380
StemLen == 1
HashMod == 65521

(***************************************************************************)
(* Program constants.                                                      *)
(***************************************************************************)
LOOKAHEAD_REPLACE == 600
LOOKAHEAD_APPEND == 400
MarkerPrefixLen == 18
HashLen == 10

(***************************************************************************)
(* Tokens.                                                                 *)
(***************************************************************************)
NoName == [i |-> 0, h |-> 0, e |-> ""]

Tok(k) == [k |-> k, name |-> NoName, b |-> ""]

ImgTok(name, b) == [k |-> "IMG", name |-> name, b |-> b]

MarkTok(name) == [k |-> "MARK", name |-> name, b |-> ""]

F == Tok("F")
M == Tok("M")
NL == Tok("NL")
SP == Tok("SP")

IsWs(tok) == tok.k \in {"NL", "SP"}

\* len(f"{stem}-mermaid-{idx}-{h}{ext}") for a one-digit idx
NameLen == StemLen + 9 + 1 + 1 + HashLen + 4

\* len of the directory part of the embedded path, with its "/"
BaseLen(b) ==
  CASE b = "." -> 0
    [] b = "per-file" -> StemLen + 7 + 1
    [] b = "img" -> 4
    [] b = "default" -> 21
    [] b = "out" -> 4
    [] OTHER -> 0

CharLen(tok) ==
  CASE tok.k = "F" -> 3
    [] tok.k = "M" -> 7
    [] tok.k = "P" -> PadLen
    [] tok.k = "IMG" -> 2 + (StemLen + 8) + 2 + BaseLen(tok.b) + NameLen + 1
    [] tok.k = "MARK" -> MarkerPrefixLen + NameLen + 4
    [] OTHER -> 1

RECURSIVE Chars(_, _, _)
\* number of characters of t[from:to]
Chars(t, from, to) ==
  IF from >= to \/ from >= Len(t) THEN 0
  ELSE CharLen(t[from + 1]) + Chars(t, from + 1, to)

Min(S) == CHOOSE x \in S : \A y \in S : x <= y

Max(S) == CHOOSE x \in S : \A y \in S : x >= y

(***************************************************************************)
(* The digest of a block source in the document processor's model, where   *)
(* a text is a sequence of tokens: a polynomial digest of the tokens,      *)
(* reduced modulo HashMod, stands for the 10 digits of hash_text.          *)
(***************************************************************************)
TokCode(tok) ==
  CASE tok.k = "F" -> 1
    [] tok.k = "M" -> 2
    [] tok.k = "NL" -> 3
    [] tok.k = "SP" -> 4
    [] tok.k = "A" -> 5
    [] tok.k = "B" -> 6
    [] tok.k = "T" -> 7
    [] tok.k = "P" -> 8
    [] tok.k = "IMG" -> 9 + tok.name.i + tok.name.h
    [] tok.k = "MARK" -> 10 + tok.name.i + tok.name.h
    [] OTHER -> 11

RECURSIVE HashFrom(_, _, _)
HashFrom(s, k, acc) ==
  IF k > Len(s) THEN acc
  ELSE HashFrom(s, k + 1, (acc * 31 + TokCode(s[k])) % HashMod)

\* the digest of a token text in the document processor's model: hash_text
\* with SHA-1 replaced by a polynomial digest of the tokens
TokenDigest(s) == HashFrom(s, 1, 7)

(***************************************************************************)
(* hash_text, lines 86-88: hashlib.sha1(s.encode("utf-8")).hexdigest()[:10].*)
(* A string is a sequence of code points, a 32-bit word is a pair          *)
(* <<high half, low half>> of 16-bit numbers.                              *)
(***************************************************************************)
\* str.encode("utf-8")
Utf8Char(c) ==
  IF c < 128 THEN <<c>>
  ELSE IF c < 2048 THEN <<192 + (c \div 64), 128 + (c % 64)>>
  ELSE IF c < 65536
  THEN <<224 + (c \div 4096), 128 + ((c \div 64) % 64), 128 + (c % 64)>>
  ELSE <<240 + (c \div 262144), 128 + ((c \div 4096) % 64),
         128 + ((c \div 64) % 64), 128 + (c % 64)>>

RECURSIVE Utf8Range(_, _, _)
\* the bytes of the characters from .. to, by halves
Utf8Range(str, from, to) ==
  IF from > to THEN <<>>
  ELSE IF from = to THEN Utf8Char(str[from])
  ELSE LET mid == (from + to) \div 2
       IN Utf8Range(str, from, mid) \o Utf8Range(str, mid + 1, to)

Utf8(str) == Utf8Range(str, 1, Len(str))

RECURSIVE And16(_, _)
And16(a, b) ==
  IF a = 0 \/ b = 0 THEN 0
  ELSE ((a % 2) * (b % 2)) + (2 * And16(a \div 2, b \div 2))

Xor16(a, b) == (a + b) - (2 * And16(a, b))

AndW(x, y) == <<And16(x[1], y[1]), And16(x[2], y[2])>>

XorW(x, y) == <<Xor16(x[1], y[1]), Xor16(x[2], y[2])>>

\* addition modulo 2^32
AddW(x, y) ==
  LET lo == x[2] + y[2]
      hi == x[1] + y[1] + (lo \div 65536)
  IN <<hi % 65536, lo % 65536>>

\* rotation to the left by n < 16 bits
RotlSmall(x, n) ==
  <<((x[1] % (2 ^ (16 - n))) * (2 ^ n)) + (x[2] \div (2 ^ (16 - n))),
    ((x[2] % (2 ^ (16 - n))) * (2 ^ n)) + (x[1] \div (2 ^ (16 - n)))>>

Rotl1(x) == RotlSmall(x, 1)

Rotl5(x) == RotlSmall(x, 5)

Rotl30(x) == RotlSmall(<<x[2], x[1]>>, 14)

\* the message with SHA-1's padding: 0x80, zeros, the bit length in 64 bits
Padded(bytes) ==
  LET n == Len(bytes)
      zeros == (119 - (n % 64)) % 64
      bits == 8 * n
  IN bytes \o <<128>> \o [k \in 1 .. zeros |-> 0]
       \o <<0, 0, 0, 0, bits \div 16777216, (bits \div 65536) % 256,
            (bits \div 256) % 256, bits % 256>>

\* the 16 words of the 64-byte chunk that starts after offset o
ChunkWords(pad, o) ==
  [j \in 1 .. 16 |->
     <<(pad[o + (4 * j) - 3] * 256) + pad[o + (4 * j) - 2],
       (pad[o + (4 * j) - 1] * 256) + pad[o + (4 * j)]>>]

\* the next word of the message schedule
NextWord(w) ==
  LET t == Len(w) + 1
  IN Rotl1(XorW(XorW(w[t - 3], w[t - 8]), XorW(w[t - 14], w[t - 16])))

RECURSIVE Extend(_, _)
\* the message schedule w extended to n words, by halves
Extend(w, n) ==
  IF Len(w) >= n THEN w
  ELSE IF Len(w) + 1 = n THEN Append(w, NextWord(w))
  ELSE Extend(Extend(w, (Len(w) + n) \div 2), n)

\* the 80 words of the message schedule
Schedule(w) == Extend(w, 80)

RoundF(t, b, c, d) ==
  IF t <= 20 THEN XorW(d, AndW(b, XorW(c, d)))
  ELSE IF t <= 40 THEN XorW(b, XorW(c, d))
  ELSE IF t <= 60 THEN XorW(XorW(AndW(b, c), AndW(b, d)), AndW(c, d))
  ELSE XorW(b, XorW(c, d))

RoundK(t) ==
  IF t <= 20 THEN <<23170, 31129>>
  ELSE IF t <= 40 THEN <<28377, 60321>>
  ELSE IF t <= 60 THEN <<36635, 48348>>
  ELSE <<51810, 49622>>

\* round v[6] on the working state v = <<a, b, c, d, e, round>>
Round(v, w) ==
  LET t == v[6]
      tmp == AddW(AddW(AddW(Rotl5(v[1]), RoundF(t, v[2], v[3], v[4])),
                       AddW(v[5], RoundK(t))), w[t])
  IN <<tmp, v[1], Rotl30(v[2]), v[3], v[4], t + 1>>

RECURSIVE Rounds(_, _, _)
\* the rounds v[6] .. to, by halves
Rounds(v, w, to) ==
  IF v[6] > to THEN v
  ELSE IF v[6] = to THEN Round(v, w)
  ELSE Rounds(Rounds(v, w, (v[6] + to) \div 2), w, to)

RECURSIVE Chunks(_, _, _)
Chunks(h, pad, o) ==
  IF o >= Len(pad) THEN h
  ELSE LET v == Rounds(Append(h, 1), Schedule(ChunkWords(pad, o)), 80)
       IN Chunks(<<AddW(h[1], v[1]), AddW(h[2], v[2]), AddW(h[3], v[3]),
                   AddW(h[4], v[4]), AddW(h[5], v[5])>>, pad, o + 64)

\* hashlib.sha1(bytes): the five words of the digest
sha1(bytes) ==
  Chunks(<<(<<26437, 8961>>), (<<61389, 43913>>), (<<39098, 56574>>),
           (<<4146, 21622>>), (<<50130, 57840>>)>>, Padded(bytes), 0)

\* the four hexadecimal digits of a 16-bit number
Hex4(n) == <<n \div 4096, (n \div 256) % 16, (n \div 16) % 16, n % 16>>

\* hexdigest()
hexdigest(h) ==
  Hex4(h[1][1]) \o Hex4(h[1][2]) \o Hex4(h[2][1]) \o Hex4(h[2][2])
    \o Hex4(h[3][1]) \o Hex4(h[3][2]) \o Hex4(h[4][1]) \o Hex4(h[4][2])
    \o Hex4(h[5][1]) \o Hex4(h[5][2])

hash_text(str) == SubSeq(hexdigest(sha1(Utf8(str))), 1, HashLen)

(***************************************************************************)
(* MERMAID_BLOCK_RE and find_mermaid_blocks.                               *)
(***************************************************************************)
\* "^" without the anchor: a fence is found anywhere in a line
LineStartAnywhere(t, i) == TRUE

\* "^" under re.MULTILINE
LineStart(t, i) == i = 0 \/ t[i].k = "NL"

RECURSIVE WsEnd(_, _)
\* the end of the maximal run of whitespace starting at offset i (greedy \s*)
WsEnd(t, i) ==
  IF i < Len(t) /\ IsWs(t[i + 1]) THEN WsEnd(t, i + 1) ELSE i

\* offsets q >= from where "\n```" matches
Closings(t, from) ==
  {q \in from .. (Len(t) - 2) : t[q + 1].k = "NL" /\ t[q + 2].k = "F"}

\* the match of MERMAID_BLOCK_RE starting exactly at offset i, or none
MatchAt(t, i) ==
  IF ~(LineStart(t, i) /\ i + 2 <= Len(t) /\ t[i + 1].k = "F" /\ t[i + 2].k = "M")
  THEN [ok |-> FALSE, start |-> 0, end |-> 0, code |-> <<>>]
  ELSE
    LET w == WsEnd(t, i + 2)
        \* the "\n" after \s*: the backtracking tries the longest \s* first
        ps == {p \in (i + 2) .. (w - 1) : t[p + 1].k = "NL" /\ Closings(t, p + 1) # {}}
    IN IF ps = {}
       THEN [ok |-> FALSE, start |-> 0, end |-> 0, code |-> <<>>]
       ELSE LET p == Max(ps)
                q == Min(Closings(t, p + 1))
            IN [ok |-> TRUE, start |-> i, end |-> WsEnd(t, q + 2),
                code |-> SubSeq(t, p + 2, q)]

RECURSIVE FindFrom(_, _)
\* finditer: the leftmost match at or after pos, then on from its end
FindFrom(t, pos) ==
  IF pos >= Len(t) THEN <<>>
  ELSE LET m == MatchAt(t, pos)
       IN IF m.ok
          THEN <<[start |-> m.start, end |-> m.end, code |-> m.code]>>
                 \o FindFrom(t, m.end)
          ELSE FindFrom(t, pos + 1)

find_mermaid_blocks(t) == FindFrom(t, 0)

(***************************************************************************)
(* The look-ahead window text[end : end + width], measured in characters.  *)
(***************************************************************************)
\* the character offset, inside the window that starts at e, of token offset j
Off(t, e, j) == Chars(t, e, j)

\* len(lookahead)
LookLen(t, e, width) ==
  LET total == Chars(t, e, Len(t)) IN IF total < width THEN total ELSE width

RECURSIVE WsEndIn(_, _, _, _)
\* greedy \s* from token offset j, inside the window
WsEndIn(t, e, width, j) ==
  IF j < Len(t) /\ IsWs(t[j + 1]) /\ Off(t, e, j) + 1 <= width
  THEN WsEndIn(t, e, width, j + 1)
  ELSE j

(***************************************************************************)
(* replace_blocks_with_images.                                             *)
(***************************************************************************)
\* lookahead.find(MARKER_PREFIX + image_name): the token offsets that match
MarkerHits(t, e, name) ==
  {j \in e .. (Len(t) - 1) :
     /\ t[j + 1].k = "MARK"
     /\ t[j + 1].name = name
     /\ Off(t, e, j) + MarkerPrefixLen + NameLen <= LOOKAHEAD_REPLACE}

\* skip_extra, as a number of tokens after the block's end
SkipExtra(t, e, name) ==
  LET hits == MarkerHits(t, e, name)
  IN IF hits # {}
     THEN LET j == Min(hits)
              end_after == Off(t, e, j) + CharLen(t[j + 1])
          IN IF end_after > LOOKAHEAD_REPLACE
             THEN 0   \* "-->" lies outside the window: end_marker = -1
             ELSE IF /\ end_after < LookLen(t, e, LOOKAHEAD_REPLACE)
                     /\ t[j + 2].k = "NL"
                  THEN (j + 2) - e
                  ELSE (j + 1) - e
     ELSE \* ^\s*!\[[^\]]*\]\([^\)]*mermaid[^\)]*\)\s*\n? matching at offset 0
          LET w == WsEndIn(t, e, LOOKAHEAD_REPLACE, e)
          IN IF /\ w < Len(t)
                /\ t[w + 1].k = "IMG"
                /\ Off(t, e, w) + CharLen(t[w + 1]) <= LOOKAHEAD_REPLACE
             THEN WsEndIn(t, e, LOOKAHEAD_REPLACE, w + 1) - e
             ELSE 0

RECURSIVE ReplaceLoopStale(_, _, _, _, _)
\* ReplaceLoop with the cursor left at the block's start: the span is not consumed
ReplaceLoopStale(t, iw, rels, k, last) ==
  IF k > Len(iw) \/ k > Len(rels)
  THEN SubSeq(t, last + 1, Len(t))
  ELSE SubSeq(t, last + 1, iw[k].start)
         \o <<ImgTok(rels[k].name, rels[k].b), NL>>
         \o ReplaceLoopStale(t, iw, rels, k + 1,
                             iw[k].start + SkipExtra(t, iw[k].end, iw[k].name))

RECURSIVE ReplaceLoop(_, _, _, _, _)
\* the loop of replace_blocks_with_images from pair k on, with cursor last
ReplaceLoop(t, iw, rels, k, last) ==
  IF k > Len(iw) \/ k > Len(rels)
  THEN SubSeq(t, last + 1, Len(t))
  ELSE SubSeq(t, last + 1, iw[k].start)
         \o <<ImgTok(rels[k].name, rels[k].b), NL>>
         \o ReplaceLoop(t, iw, rels, k + 1,
                        iw[k].end + SkipExtra(t, iw[k].end, iw[k].name))

replace_blocks_with_images(t, iw, rels) == ReplaceLoop(t, iw, rels, 1, 0)

(***************************************************************************)
(* add_images_after_blocks.                                                *)
(***************************************************************************)
\* image_name in lookahead or MARKER_PREFIX in lookahead
AlreadyRendered(t, e, name) ==
  \E j \in e .. (Len(t) - 1) :
     \/ /\ t[j + 1].k = "MARK"
        /\ Off(t, e, j) + MarkerPrefixLen <= LOOKAHEAD_APPEND
     \/ /\ t[j + 1].k = "IMG"
        /\ t[j + 1].name = name
        /\ Off(t, e, j) + CharLen(t[j + 1]) - 1 <= LOOKAHEAD_APPEND

RECURSIVE AddLoopNoMarker(_, _, _, _, _)
\* AddLoop with the marker comment left out of line 201
AddLoopNoMarker(t, iw, rels, k, last) ==
  IF k > Len(iw) \/ k > Len(rels)
  THEN SubSeq(t, last + 1, Len(t))
  ELSE SubSeq(t, last + 1, iw[k].end)
         \o (IF AlreadyRendered(t, iw[k].end, iw[k].name)
             THEN <<>>
             ELSE <<NL, ImgTok(rels[k].name, rels[k].b), NL>>)
         \o AddLoopNoMarker(t, iw, rels, k + 1, iw[k].end)

RECURSIVE AddLoop(_, _, _, _, _)
AddLoop(t, iw, rels, k, last) ==
  IF k > Len(iw) \/ k > Len(rels)
  THEN SubSeq(t, last + 1, Len(t))
  ELSE SubSeq(t, last + 1, iw[k].end)
         \o (IF AlreadyRendered(t, iw[k].end, iw[k].name)
             THEN <<>>
             ELSE <<NL, ImgTok(rels[k].name, rels[k].b), NL, MarkTok(iw[k].name), NL>>)
         \o AddLoop(t, iw, rels, k + 1, iw[k].end)

add_images_after_blocks(t, iw, rels) == AddLoop(t, iw, rels, 1, 0)

(***************************************************************************)
(* The state of a run of process_file, of the document and of the image    *)
(* directory.                                                              *)
(***************************************************************************)
VARIABLES
  doc,              \* the document's text on disk
  files,            \* the image files that exist in the image directory
  fmt,              \* the requested format
  images_dir_rel,   \* the placement
  asScript,         \* the module runs as __main__ (TRUE) or was imported
  pc,               \* "idle", "render" (the loop over blocks), "rewrite"
  runs,             \* runs started so far
  mode, dry_run, backup, force,   \* the arguments of the current run
  fails,            \* the block sources on which the renderer fails in this run
  text,             \* the text read at the start of the run
  blocks,           \* find_mermaid_blocks(text)
  idx,              \* the loop index (1-based)
  images_written,   \* the (span, out_path) list
  image_paths_rel,  \* the embedded paths, in step with images_written
  outcomes,         \* per block handled: "dry", "skip", "ok", "err"
  rendered,         \* the block indices render_mermaid was called for, in order
  writes,           \* how often this run wrote the document
  backups,          \* how often this run called _create_backup successfully
  files0,           \* the image files that existed when the run started
  status,           \* "none", "running", "done", "raised", "crashed"
  ret,              \* the returned (blocks, images) pair
  prev,             \* the previous run: its arguments, status and start state
  out_dir,          \* the global output directory: "none" or "out"
  writable,         \* the document can be written
  margs,            \* main: the parsed command line
  mmdc,             \* main: ensure_mmdc_available()
  mbatch,           \* main: the documents iter_markdown_files yields, in order
  mdisk,            \* main: the text of each document of the batch on disk
  mimgs,            \* main: the image files of each document of the batch
  mi,               \* main: the position of the loop in the batch
  mpc,              \* main: "start", "loop", "call", "done"
  mexit,            \* main: "none", "0", "2", "usage" (argparse), "raised"
  mop,              \* main: op_mode
  mdone,            \* main: per document "no", "done", "raised"
  mtotal,           \* main: (total_files, total_blocks)
  ldoc, lblocks, ldone,   \* SpecLocate: a text, its blocks, located or not
  pin, pout, pdone,       \* SpecPath: a placement, the embedded path, resolved or not
  nin, nfirst, nout, ncalls  \* SpecName: two sources with an index and a
                          \* format, their names at the first and at the
                          \* latest naming, the number of namings

procvars == <<doc, files, fmt, images_dir_rel, asScript, pc, runs, mode,
              dry_run, backup, force, fails, text, blocks, idx, images_written,
              image_paths_rel, outcomes, rendered, writes, backups, files0,
              status, ret, prev, out_dir, writable, margs, mmdc, mbatch,
              mdisk, mimgs, mi, mpc, mexit, mop, mdone, mtotal>>

mainvars == <<margs, mmdc, mbatch, mdisk, mimgs, mi, mpc, mexit, mop, mdone,
              mtotal>>

purevars == <<ldoc, lblocks, ldone, pin, pout, pdone, nin, nfirst, nout, ncalls>>

vars == <<procvars, purevars>>

Modes == {"export_only", "render_replace", "render_keep"}

\* the format and the placement are the same in all runs of a behaviour
Formats == {"png"}

Placements == {"per-file"}

(***************************************************************************)
(* The documents a behaviour starts from: up to MaxSegs segments.          *)
(***************************************************************************)
Block(c) == <<F, M, NL, Tok(c), NL, F, NL>>

Segments ==
  { Block("A"), Block("B"), <<Tok("T"), NL>>, <<SP>>, <<Tok("P"), NL>> }

RECURSIVE DocsOf(_)
DocsOf(n) ==
  IF n = 0 THEN {<<>>}
  ELSE LET shorter == DocsOf(n - 1)
       IN shorter \cup {d \o s : d \in {x \in shorter : TRUE}, s \in Segments}

Docs == DocsOf(MaxSegs)

(***************************************************************************)
(* process_file.                                                           *)
(***************************************************************************)
\* rel_base_from_md, lines 241-254, for the placements of this specification
RelBase(place) ==
  CASE place = "per-file" -> "per-file"
    [] place = "none" -> IF out_dir = "none" THEN "default" ELSE "out"
    [] OTHER -> "."

\* f"{md_file.stem}-mermaid-{idx}-{h}{ext}"
\* a name that leaves the digest out
ImageNameNoDigest(i, h, format) ==
  [i |-> i, h |-> <<>>, e |-> IF format = "svg" THEN "svg" ELSE "png"]

\* image_name, lines 258-259; the stem is the same in all names
ImageName(i, h, format) ==
  [i |-> i, h |-> h, e |-> IF format = "svg" THEN "svg" ELSE "png"]

Codes(bl) == {bl[k].code : k \in 1 .. Len(bl)}

NoRun ==
  [status |-> "none", mode |-> "export_only", dry_run |-> FALSE,
   backup |-> FALSE, force |-> FALSE, fails |-> {}, files0 |-> {},
   text |-> <<>>]

NoPlacement ==
  [host |-> "posix", given |-> FALSE, dir |-> <<>>, docdir |-> <<>>, base |-> <<>>]

NoNaming == [s1 |-> <<>>, s2 |-> <<>>, i |-> 1, fmt |-> "png"]

\* the variables of the pure specifications, at rest
LocateIdle == ldoc = <<>> /\ lblocks = <<>> /\ ldone = FALSE

PathIdle == pin = NoPlacement /\ pout = <<>> /\ pdone = FALSE

NameIdle == nin = NoNaming /\ nfirst = <<>> /\ nout = <<>> /\ ncalls = 0

PureIdle == LocateIdle /\ PathIdle /\ NameIdle

NoArgs ==
  [render |-> FALSE, export |-> FALSE, keep_source |-> FALSE,
   replace |-> FALSE, add |-> FALSE, out_dir |-> FALSE, images_dir |-> FALSE,
   dry_run |-> FALSE, backup |-> FALSE, force |-> FALSE]

\* the variables of main, at rest
MainIdle ==
  /\ margs = NoArgs /\ mmdc = TRUE
  /\ mbatch = <<>> /\ mdisk = <<>> /\ mimgs = <<>> /\ mdone = <<>>
  /\ mi = 0 /\ mpc = "done" /\ mexit = "none" /\ mop = "none"
  /\ mtotal = <<0, 0>>

ProcStart(docs) ==
  /\ doc \in docs
  /\ files = {}
  /\ fmt \in Formats
  /\ images_dir_rel \in Placements
  /\ asScript \in BOOLEAN
  /\ pc = "idle"
  /\ runs = 0
  /\ mode = "export_only" /\ dry_run = FALSE /\ backup = FALSE /\ force = FALSE
  /\ fails = {}
  /\ text = <<>> /\ blocks = <<>> /\ idx = 0
  /\ images_written = <<>> /\ image_paths_rel = <<>>
  /\ outcomes = <<>> /\ rendered = <<>>
  /\ writes = 0 /\ backups = 0
  /\ files0 = {}
  /\ status = "none"
  /\ ret = <<0, 0>>
  /\ prev = NoRun
  /\ out_dir = "none"
  /\ writable = TRUE

ProcInit(docs) == ProcStart(docs) /\ MainIdle

Init == ProcInit(Docs) /\ PureIdle

\* lines 233-239: read, locate, return (0, 0) when there is no block
Enter(d, fs, m, dry, b, f, fl) ==
  LET bl == find_mermaid_blocks(d)
  IN /\ mode' = m /\ dry_run' = dry /\ backup' = b /\ force' = f
     /\ fails' = fl
     /\ text' = d
     /\ blocks' = bl
     /\ prev' = [status |-> status, mode |-> mode, dry_run |-> dry_run,
                 backup |-> backup, force |-> force, fails |-> fails,
                 files0 |-> files0, text |-> text]
     /\ IF bl = <<>>
        THEN /\ pc' = "idle" /\ status' = "done" /\ idx' = 0
        ELSE /\ pc' = "render" /\ status' = "running" /\ idx' = 1
     /\ runs' = runs + 1
     /\ files0' = fs
     /\ images_written' = <<>> /\ image_paths_rel' = <<>>
     /\ outcomes' = <<>> /\ rendered' = <<>>
     /\ writes' = 0 /\ backups' = 0
     /\ ret' = <<0, 0>>

\* a call of process_file on the document, with any arguments, in a
\* behaviour of at most n runs
BeginWithin(n) ==
  /\ pc = "idle"
  /\ runs < n
  /\ \E m \in Modes, d \in BOOLEAN, b \in BOOLEAN, f \in BOOLEAN :
       \* the renderer is not called in a dry run: it has no outcomes there
       \E fl \in (IF d THEN {{}} ELSE SUBSET Codes(find_mermaid_blocks(doc))) :
         Enter(doc, files, m, d, b, f, fl)
  /\ UNCHANGED <<doc, files, fmt, images_dir_rel, asScript, out_dir, writable>>
  /\ UNCHANGED mainvars
  /\ UNCHANGED purevars

Begin == BeginWithin(MaxRuns)

\* lines 263-280: what happens to one block
Outcome(dry, exists, forced, failing) ==
  IF dry THEN "dry"
  ELSE IF exists /\ ~forced THEN "skip"
  ELSE IF failing THEN "err"
  ELSE "ok"

\* Associates without line 270: a skipped block is not appended
AssociatesNoSkip(o) == o \in {"dry", "ok"}

\* Associates with the append of line 276 moved out of the try block: a
\* failed block is appended too
AssociatesFailed(o) == o \in {"dry", "skip", "ok", "err"}

\* lines 265, 270, 276: the outcomes that append to images_written
Associates(o) == o \in {"dry", "skip", "ok"}

\* line 274: the outcomes for which render_mermaid is called
Renders(o) == o \in {"ok", "err"}

\* lines 256-280: one iteration of the loop over the blocks
RenderStep ==
  /\ pc = "render"
  /\ LET b == blocks[idx]
         image_name == ImageName(idx, TokenDigest(b.code), fmt)
         entry == [start |-> b.start, end |-> b.end, name |-> image_name]
         rel == [b |-> RelBase(images_dir_rel), name |-> image_name]
         o == Outcome(dry_run, image_name \in files, force, b.code \in fails)
     IN /\ outcomes' = Append(outcomes, o)
        /\ rendered' = IF Renders(o) THEN Append(rendered, idx) ELSE rendered
        /\ files' = IF o = "ok" THEN files \cup {image_name} ELSE files
        /\ IF Associates(o)
           THEN /\ images_written' = Append(images_written, entry)
                /\ image_paths_rel' = Append(image_paths_rel, rel)
           ELSE UNCHANGED <<images_written, image_paths_rel>>
  /\ idx' = idx + 1
  /\ pc' = IF idx = Len(blocks) THEN "rewrite" ELSE "render"
  /\ UNCHANGED <<doc, fmt, images_dir_rel, asScript, runs, mode, dry_run,
                 backup, force, fails, text, blocks, writes, backups, files0,
                 status, ret, prev, out_dir, writable>>
  /\ UNCHANGED mainvars
  /\ UNCHANGED purevars

\* lines 282-295: the text the active mode computes
NewText ==
  CASE mode = "render_replace" ->
         replace_blocks_with_images(text, images_written, image_paths_rel)
    [] mode = "render_keep" ->
         add_images_after_blocks(text, images_written, image_paths_rel)
    [] OTHER -> text

\* ShouldWrite without the comparison with the text read
ShouldWriteAlways(new_text) ==
  mode \in {"render_replace", "render_keep"} /\ ~dry_run

\* ShouldWrite without the test of dry_run
ShouldWriteInDryRun(new_text) ==
  mode \in {"render_replace", "render_keep"} /\ new_text # text

\* lines 284 and 291: whether the document is written back
ShouldWrite(new_text) ==
  mode \in {"render_replace", "render_keep"} /\ ~dry_run /\ new_text # text

\* lines 282-297: rewrite, back up, write back, return.  _create_backup is
\* defined below the __main__ guard (lines 379-383): a run as a script has no
\* such name when process_file calls it, and the call raises NameError.
Finish ==
  /\ pc = "rewrite"
  /\ pc' = "idle"
  /\ LET new_text == NewText
     IN IF ShouldWrite(new_text)
        THEN IF backup /\ asScript
             THEN /\ status' = "raised"
                  /\ UNCHANGED <<doc, writes, backups, ret>>
             ELSE IF ~writable
             THEN \* line 287 or 294: write_text raises OSError
                  /\ backups' = IF backup THEN backups + 1 ELSE backups
                  /\ status' = "raised"
                  /\ UNCHANGED <<doc, writes, ret>>
             ELSE /\ backups' = IF backup THEN backups + 1 ELSE backups
                  /\ doc' = new_text
                  /\ writes' = writes + 1
                  /\ status' = "done"
                  /\ ret' = <<Len(blocks), Len(images_written)>>
        ELSE /\ status' = "done"
             /\ ret' = <<Len(blocks), Len(images_written)>>
             /\ UNCHANGED <<doc, writes, backups>>
  /\ UNCHANGED <<files, fmt, images_dir_rel, asScript, runs, mode, dry_run,
                 backup, force, fails, text, blocks, idx, images_written,
                 image_paths_rel, outcomes, rendered, files0, prev, out_dir,
                 writable>>
  /\ UNCHANGED mainvars
  /\ UNCHANGED purevars

\* the process is interrupted inside process_file after it wrote an image
\* file and before it wrote the document: what is on disk stays.  (An
\* interruption before the first write leaves the disk as it was.)
Crash ==
  /\ pc \in {"render", "rewrite"}
  /\ files # files0
  /\ pc' = "idle"
  /\ status' = "crashed"
  /\ UNCHANGED <<doc, files, fmt, images_dir_rel, asScript, runs, mode,
                 dry_run, backup, force, fails, text, blocks, idx,
                 images_written, image_paths_rel, outcomes, rendered, writes,
                 backups, files0, ret, prev, out_dir, writable>>
  /\ UNCHANGED mainvars
  /\ UNCHANGED purevars

Next == Begin \/ RenderStep \/ Finish \/ Crash

Spec == Init /\ [][Next]_vars

(***************************************************************************)
(* SpecLong: up to MaxLongRuns runs of process_file on a document of up to *)
(* two blocks.                                                             *)
(***************************************************************************)
LongDocs == { <<>>, Block("A"), Block("A") \o Block("B") }

InitLong == ProcInit(LongDocs) /\ PureIdle

BeginLong == BeginWithin(MaxLongRuns)

NextLong == BeginLong \/ RenderStep \/ Finish \/ Crash

SpecLong == InitLong /\ [][NextLong]_vars

(***************************************************************************)
(* SpecWide: the runs of Spec on documents of up to MaxWideSegs segments,  *)
(* each the block A or a space.                                            *)
(***************************************************************************)
WideSegments == { Block("A"), <<SP>> }

RECURSIVE WideDocsOf(_)
WideDocsOf(n) ==
  IF n = 0 THEN {<<>>}
  ELSE LET shorter == WideDocsOf(n - 1)
       IN shorter \cup {d \o s : d \in {x \in shorter : TRUE}, s \in WideSegments}

InitWide == ProcInit(WideDocsOf(MaxWideSegs)) /\ PureIdle

SpecWide == InitWide /\ [][Next]_vars

(***************************************************************************)
(* SpecMain: main on a batch of up to MaxBatch documents, lines 319-376.   *)
(* The renderer, when it is there, succeeds.                               *)
(***************************************************************************)
ArgSets ==
  [render : BOOLEAN, export : BOOLEAN, keep_source : BOOLEAN,
   replace : BOOLEAN, add : BOOLEAN, out_dir : BOOLEAN, images_dir : BOOLEAN,
   dry_run : BOOLEAN, backup : BOOLEAN, force : {FALSE}]

MainDocs == { <<Tok("T"), NL>>, Block("A") }

\* a document that cannot be read is never written
BatchFiles ==
  { f \in [text : MainDocs, readable : BOOLEAN, writable : BOOLEAN] :
      ~f.readable => f.writable }

RECURSIVE BatchesOf(_)
BatchesOf(n) ==
  IF n = 0 THEN {<<>>}
  ELSE LET shorter == BatchesOf(n - 1)
       IN shorter \cup {Append(b, f) : b \in {x \in shorter : TRUE}, f \in BatchFiles}

InitMain ==
  /\ ProcStart({<<>>})
  /\ PureIdle
  /\ margs \in ArgSets
  /\ mmdc \in BOOLEAN
  /\ mbatch \in BatchesOf(MaxBatch)
  /\ mdisk = [j \in 1 .. Len(mbatch) |-> mbatch[j].text]
  /\ mimgs = [j \in 1 .. Len(mbatch) |-> {}]
  /\ mdone = [j \in 1 .. Len(mbatch) |-> "no"]
  /\ mi = 0 /\ mpc = "start" /\ mexit = "none" /\ mop = "none"
  /\ mtotal = <<0, 0>>

\* lines 350-361: the operation mode, or "error" for the pair main rejects
OpMode(a) ==
  IF a.render THEN (IF a.keep_source THEN "render_keep" ELSE "render_replace")
  ELSE IF a.export THEN "export_only"
  ELSE IF a.replace \/ a.add
       THEN IF a.replace /\ a.add THEN "error"
            ELSE IF a.add THEN "render_keep" ELSE "render_replace"
  ELSE "export_only"

\* lines 327-368: parse the arguments, resolve the mode, look for mmdc
MainStart ==
  /\ mpc = "start"
  /\ IF margs.render /\ margs.export
     THEN \* line 344: the mutually exclusive group of argparse
          /\ mpc' = "done" /\ mexit' = "usage"
          /\ UNCHANGED <<mop, mi, out_dir, images_dir_rel>>
     ELSE /\ out_dir' = IF margs.out_dir THEN "out" ELSE "none"
          /\ images_dir_rel' = IF margs.images_dir THEN "per-file" ELSE "none"
          /\ IF OpMode(margs) = "error"
             THEN /\ mpc' = "done" /\ mexit' = "2"
                  /\ UNCHANGED <<mop, mi>>
             ELSE /\ mop' = OpMode(margs)
                  /\ IF ~margs.dry_run /\ ~mmdc
                     THEN /\ mpc' = "done" /\ mexit' = "2"
                          /\ UNCHANGED mi
                     ELSE /\ mpc' = "loop" /\ mi' = 1
                          /\ UNCHANGED mexit
  /\ UNCHANGED <<doc, files, fmt, asScript, pc, runs, mode, dry_run, backup,
                 force, fails, text, blocks, idx, images_written,
                 image_paths_rel, outcomes, rendered, writes, backups, files0,
                 status, ret, prev, writable>>
  /\ UNCHANGED <<margs, mmdc, mbatch, mdisk, mimgs, mdone, mtotal>>
  /\ UNCHANGED purevars

\* lines 369-370 and 233: the next document of the batch enters process_file;
\* read_text raises on a document that cannot be read
MainCall ==
  /\ mpc = "loop"
  /\ mi <= Len(mbatch)
  /\ mpc' = "call"
  /\ doc' = mdisk[mi]
  /\ files' = mimgs[mi]
  /\ writable' = mbatch[mi].writable
  /\ IF mbatch[mi].readable
     THEN Enter(mdisk[mi], mimgs[mi], mop, margs.dry_run, margs.backup,
                margs.force, {})
     ELSE /\ status' = "raised" /\ pc' = "idle"
          /\ UNCHANGED <<runs, mode, dry_run, backup, force, fails, text,
                         blocks, idx, images_written, image_paths_rel,
                         outcomes, rendered, writes, backups, files0, ret,
                         prev>>
  /\ UNCHANGED <<fmt, images_dir_rel, asScript, out_dir>>
  /\ UNCHANGED <<margs, mmdc, mbatch, mdisk, mimgs, mi, mexit, mop, mdone,
                 mtotal>>
  /\ UNCHANGED purevars

\* lines 370-373: process_file returned, or raised: main catches nothing
MainReturn ==
  /\ mpc = "call"
  /\ pc = "idle"
  /\ mdisk' = [mdisk EXCEPT ![mi] = doc]
  /\ mimgs' = [mimgs EXCEPT ![mi] = files]
  /\ IF status = "done"
     THEN /\ mdone' = [mdone EXCEPT ![mi] = "done"]
          /\ mtotal' = IF ret[1] # 0
                       THEN <<mtotal[1] + 1, mtotal[2] + ret[1]>>
                       ELSE mtotal
          /\ mi' = mi + 1
          /\ mpc' = "loop"
          /\ UNCHANGED mexit
     ELSE /\ mdone' = [mdone EXCEPT ![mi] = "raised"]
          /\ mpc' = "done"
          /\ mexit' = "raised"
          /\ UNCHANGED <<mi, mtotal>>
  /\ UNCHANGED <<doc, files, fmt, images_dir_rel, asScript, pc, runs, mode,
                 dry_run, backup, force, fails, text, blocks, idx,
                 images_written, image_paths_rel, outcomes, rendered, writes,
                 backups, files0, status, ret, prev, out_dir, writable>>
  /\ UNCHANGED <<margs, mmdc, mbatch, mop>>
  /\ UNCHANGED purevars

\* lines 375-376: the batch is exhausted
MainEnd ==
  /\ mpc = "loop"
  /\ mi > Len(mbatch)
  /\ mpc' = "done"
  /\ mexit' = "0"
  /\ UNCHANGED <<doc, files, fmt, images_dir_rel, asScript, pc, runs, mode,
                 dry_run, backup, force, fails, text, blocks, idx,
                 images_written, image_paths_rel, outcomes, rendered, writes,
                 backups, files0, status, ret, prev, out_dir, writable>>
  /\ UNCHANGED <<margs, mmdc, mbatch, mdisk, mimgs, mi, mop, mdone, mtotal>>
  /\ UNCHANGED purevars

NextMain ==
  MainStart \/ MainCall \/ RenderStep \/ Finish \/ MainReturn \/ MainEnd

SpecMain == InitMain /\ [][NextMain]_vars

(***************************************************************************)
(* SpecLocate: find_mermaid_blocks on every text of up to MaxLocLen tokens. *)
(***************************************************************************)
LocAlphabet == {F, M, NL, SP, Tok("A")}

RECURSIVE SeqsUpTo(_, _)
SeqsUpTo(S, n) ==
  IF n = 0 THEN {<<>>}
  ELSE LET shorter == SeqsUpTo(S, n - 1)
       IN shorter \cup {Append(x, a) : x \in shorter, a \in S}

InitLocate ==
  /\ ProcInit({<<>>})
  /\ ~asScript
  /\ ldoc \in SeqsUpTo(LocAlphabet, MaxLocLen)
  /\ lblocks = <<>> /\ ldone = FALSE
  /\ PathIdle /\ NameIdle

\* lines 91-100
Locate ==
  /\ ~ldone
  /\ lblocks' = find_mermaid_blocks(ldoc)
  /\ ldone' = TRUE
  /\ UNCHANGED <<ldoc, pin, pout, pdone, nin, nfirst, nout, ncalls, procvars>>

SpecLocate == InitLocate /\ [][Locate]_vars

(***************************************************************************)
(* The path resolver, lines 241-261.  A path string is a sequence of       *)
(* pieces: "/", "\\", ".", " ", a letter "a", "b" or "o", the word         *)
(* "per-file" in lower case ("PF") or in mixed case ("Pf"), the document's *)
(* stem ("STEM"), the literal "_images" and the image's file name          *)
(* ("NAME").  The host is "posix" or "nt".                                 *)
(***************************************************************************)
Seps(host) == IF host = "nt" THEN {"/", "\\"} ELSE {"/"}

\* os.sep
OsSep(host) == IF host = "nt" THEN "\\" ELSE "/"

RECURSIVE StripLeft(_)
StripLeft(x) == IF x # <<>> /\ Head(x) = " " THEN StripLeft(Tail(x)) ELSE x

RECURSIVE StripRight(_)
StripRight(x) ==
  IF x # <<>> /\ x[Len(x)] = " " THEN StripRight(SubSeq(x, 1, Len(x) - 1)) ELSE x

\* str.strip()
Strip(x) == StripRight(StripLeft(x))

\* str.lower()
Lower(x) == [k \in 1 .. Len(x) |-> IF x[k] = "Pf" THEN "PF" ELSE x[k]]

RECURSIVE SplitParts(_, _, _, _)
\* the parts of a relative pathlib path: the string cut at the separators,
\* without the empty and the "." components
SplitParts(x, k, cur, seps) ==
  LET keep == IF cur = <<>> \/ cur = <<".">> THEN <<>> ELSE <<cur>>
  IN IF k > Len(x) THEN keep
     ELSE IF x[k] \in seps THEN keep \o SplitParts(x, k + 1, <<>>, seps)
     ELSE SplitParts(x, k + 1, Append(cur, x[k]), seps)

\* Path(x).parts, for a relative x
Path(host, x) == SplitParts(x, 1, <<>>, Seps(host))

RECURSIVE JoinParts(_, _)
JoinParts(parts, sep) ==
  IF parts = <<>> THEN <<>>
  ELSE IF Len(parts) = 1 THEN parts[1]
  ELSE parts[1] \o <<sep>> \o JoinParts(Tail(parts), sep)

\* str(path): the parts joined by the host's separator
AsStr(host, parts) == IF parts = <<>> THEN <<".">> ELSE JoinParts(parts, OsSep(host))

\* the parts joined as str(path) joins them
as_native(host, parts) == AsStr(host, parts)

\* path.as_posix(): the parts joined by "/"
as_posix(host, parts) == IF parts = <<>> THEN <<".">> ELSE JoinParts(parts, "/")

RECURSIVE CommonLen(_, _)
CommonLen(x, y) ==
  IF x # <<>> /\ y # <<>> /\ Head(x) = Head(y)
  THEN 1 + CommonLen(Tail(x), Tail(y))
  ELSE 0

\* os.path.relpath(target, start) for two absolute directories given by their
\* components
relpath(host, target, start) ==
  LET c == CommonLen(target, start)
      ups == [k \in 1 .. (Len(start) - c) |-> <<".", ".">>]
      rest == SubSeq(target, c + 1, Len(target))
  IN AsStr(host, ups \o rest)

\* rel_base_from_md, lines 241-254
rel_base_from_md(cfg) ==
  IF cfg.given
  THEN IF Lower(Strip(cfg.dir)) = <<"PF">>
       THEN Path(cfg.host, <<"STEM", "_images">>)
       ELSE IF Strip(cfg.dir) = <<>> \/ Strip(cfg.dir) = <<".">>
       THEN Path(cfg.host, <<".">>)
       ELSE Path(cfg.host, cfg.dir)
  ELSE Path(cfg.host, relpath(cfg.host, cfg.base, cfg.docdir))

\* rel_path, line 261
rel_path(cfg) == as_posix(cfg.host, rel_base_from_md(cfg) \o <<(<<"NAME">>)>>)

DirPieces == {"/", "\\", ".", " ", "a", "PF", "Pf"}

\* the placements: a relative per-file directory, or the shared directory
\* and the document's directory
PlacementInputs ==
  {c \in [host : {"posix", "nt"}, given : {TRUE},
          dir : SeqsUpTo(DirPieces, MaxDirLen), docdir : {<<>>}, base : {<<>>}] :
     c.dir = <<>> \/ c.dir[1] \notin Seps(c.host)}
  \cup
  {[host |-> h, given |-> FALSE, dir |-> <<>>, docdir |-> dd, base |-> b] :
     h \in {"posix", "nt"},
     dd \in {<<>>, <<(<<"a">>)>>, <<(<<"a">>), (<<"b">>)>>},
     b \in {<<>>, <<(<<"a">>)>>, <<(<<"a">>), (<<"b">>)>>, <<(<<"o">>)>>,
            <<(<<"a">>), (<<"o">>)>>}}

InitPath ==
  /\ ProcInit({<<>>})
  /\ ~asScript
  /\ LocateIdle /\ NameIdle
  /\ pin \in PlacementInputs
  /\ pout = <<>> /\ pdone = FALSE

Resolve ==
  /\ ~pdone
  /\ pout' = rel_path(pin)
  /\ pdone' = TRUE
  /\ UNCHANGED <<pin, ldoc, lblocks, ldone, nin, nfirst, nout, ncalls, procvars>>

SpecPath == InitPath /\ [][Resolve]_vars

(***************************************************************************)
(* SpecName: the namer, lines 257-259, on two sources of one document at   *)
(* one index, called up to MaxNamings times.                               *)
(***************************************************************************)
\* the empty source
SrcEmpty ==
  <<>>

\* "graph TD;A-->B"
SrcGraph ==
  <<103, 114, 97, 112, 104, 32, 84, 68, 59, 65, 45, 45, 62, 66>>

\* "graph TD;A-->B " (a blank added)
SrcGraphSpace ==
  <<103, 114, 97, 112, 104, 32, 84, 68, 59, 65, 45, 45, 62, 66, 32>>

\* "graph TD;A-->" and U+00E9
SrcAccent ==
  <<103, 114, 97, 112, 104, 32, 84, 68, 59, 65, 45, 45, 62, 233>>

\* "graph TD;A", 40 blanks and tabs, "-->B"
SrcTabsA ==
  <<103, 114, 97, 112, 104, 32, 84, 68, 59, 65, 9, 32, 9, 32, 32, 9, 9,
    9, 32, 32, 9, 32, 32, 32, 32, 32, 32, 32, 9, 9, 9, 9, 32, 32, 32, 32,
    32, 9, 9, 9, 9, 32, 32, 32, 9, 9, 32, 32, 32, 9, 45, 45, 62, 66>>

\* SrcTabsA with other blanks and tabs
SrcTabsB ==
  <<103, 114, 97, 112, 104, 32, 84, 68, 59, 65, 9, 9, 9, 9, 32, 9, 32,
    32, 32, 32, 9, 9, 32, 32, 9, 32, 32, 9, 32, 32, 9, 9, 32, 9, 9, 9,
    32, 32, 32, 9, 9, 32, 9, 9, 9, 9, 9, 9, 32, 9, 45, 45, 62, 66>>

Sources == {SrcEmpty, SrcGraph, SrcGraphSpace, SrcAccent, SrcTabsA, SrcTabsB}

InitName ==
  /\ ProcInit({<<>>})
  /\ ~asScript
  /\ LocateIdle /\ PathIdle
  /\ nin \in [s1 : Sources, s2 : Sources, i : 1 .. MaxIdx, fmt : {"png", "svg"}]
  /\ nfirst = <<>> /\ nout = <<>> /\ ncalls = 0

NameBlocks ==
  /\ ncalls < MaxNamings
  /\ LET names == <<ImageName(nin.i, hash_text(nin.s1), nin.fmt),
                    ImageName(nin.i, hash_text(nin.s2), nin.fmt)>>
     IN /\ nout' = names
        /\ nfirst' = IF ncalls = 0 THEN names ELSE nfirst
  /\ ncalls' = ncalls + 1
  /\ UNCHANGED <<nin, ldoc, lblocks, ldone, pin, pout, pdone, procvars>>

SpecName == InitName /\ [][NameBlocks]_vars

(***************************************************************************)
(* Claims.                                                                 *)
(***************************************************************************)
\* the current run returned normally
Returned == pc = "idle" /\ status = "done" /\ runs > 0

\* the current run repeats the previous, completed one: same mode, flags and
\* renderer outcomes, on the document the previous run left
Repeats(m) ==
  /\ Returned
  /\ mode = m /\ ~dry_run
  /\ prev.status = "done" /\ prev.mode = m /\ ~prev.dry_run
  /\ prev.force = force
  /\ prev.fails = fails

\* C1: replace-mode idempotency.  A render_replace run that repeats a
\* completed render_replace run leaves the document exactly as the first run
\* left it.
C1_ReplaceIdempotent == Repeats("render_replace") => doc = text

\* C2: append-mode idempotency.  A render_keep run that repeats a completed
\* render_keep run inserts nothing and does not write the document.
C2_AppendIdempotent == Repeats("render_keep") => (doc = text /\ writes = 0)

\* the current run ended by itself: it returned or it raised
Ended == pc = "idle" /\ runs > 0 /\ status \in {"done", "raised"}

NameOf(k) == ImageName(k, TokenDigest(blocks[k].code), fmt)

HasImage(t, name) == \E j \in 1 .. Len(t) : t[j].k = "IMG" /\ t[j].name = name

RewriteModes == {"render_replace", "render_keep"}

\* C3: partial failure isolation.  When the renderer failed on a block, the
\* run still handled every block, every block rendered or skipped has its
\* image reference in the document, and process_file returned normally.
C3_FailureIsolated ==
  (Ended /\ \E k \in 1 .. Len(outcomes) : outcomes[k] = "err") =>
    /\ status = "done"
    /\ Len(outcomes) = Len(blocks)
    /\ mode \in RewriteModes =>
         \A k \in 1 .. Len(blocks) :
            outcomes[k] \in {"ok", "skip"} => HasImage(doc, NameOf(k))

RECURSIVE AssocOf(_, _, _, _)
\* the (span, name) list of an uninterrupted run over blocks bl from block k
\* on, with the image files fs present at its start and the renderer failing
\* on the sources fl
AssocOf(bl, k, fs, fl) ==
  IF k > Len(bl) THEN <<>>
  ELSE LET n == ImageName(k, TokenDigest(bl[k].code), fmt)
       IN (IF n \in fs \/ bl[k].code \notin fl
           THEN <<[start |-> bl[k].start, end |-> bl[k].end, name |-> n]>>
           ELSE <<>>)
          \o AssocOf(bl, k + 1, fs, fl)

RelsOf(iw) ==
  [k \in 1 .. Len(iw) |-> [b |-> RelBase(images_dir_rel), name |-> iw[k].name]]

\* the text an uninterrupted run without force leaves
UninterruptedText(t, m, fs, fl) ==
  LET iw == AssocOf(find_mermaid_blocks(t), 1, fs, fl)
  IN CASE m = "render_replace" -> replace_blocks_with_images(t, iw, RelsOf(iw))
       [] m = "render_keep" -> add_images_after_blocks(t, iw, RelsOf(iw))
       [] OTHER -> t

\* the current run is the complete re-run, with the same arguments and no
\* force, of a run that was interrupted after it wrote image files
RerunAfterCrash ==
  /\ Returned
  /\ prev.status = "crashed"
  /\ ~dry_run /\ ~force /\ ~prev.dry_run /\ ~prev.force
  /\ mode = prev.mode /\ backup = prev.backup /\ fails = prev.fails

\* C4: crash/re-run safety.  The re-run does not call the renderer for an
\* image that exists, and leaves the text an uninterrupted run would have.
C4_CrashRerunSafe ==
  RerunAfterCrash =>
    /\ \A j \in 1 .. Len(rendered) : NameOf(rendered[j]) \notin files0
    /\ doc = UninterruptedText(text, mode, prev.files0, fails)

C4_Witness ==
  /\ RerunAfterCrash
  /\ mode \in RewriteModes
  /\ doc # text
  /\ prev.files0 = {}
  /\ \E k \in 1 .. Len(outcomes) : outcomes[k] = "skip"
  /\ \E k \in 1 .. Len(outcomes) : outcomes[k] = "ok"

HasBlockSyntax(t) ==
  \E i \in 0 .. (Len(t) - 2) :
     /\ i = 0 \/ t[i].k = "NL"
     /\ t[i + 1].k = "F" /\ t[i + 2].k = "M"
     /\ \E p \in (i + 2) .. (Len(t) - 1) :
          /\ \A j \in (i + 3) .. p : IsWs(t[j])
          /\ t[p + 1].k = "NL"
          /\ \E q \in (p + 1) .. (Len(t) - 2) :
               t[q + 1].k = "NL" /\ t[q + 2].k = "F"

\* C6: no-op on no blocks.  On a text without a block the run ends at once
\* with (0, 0): no renderer call, no image file, no write, no backup.
C6_NoBlocksNoOp ==
  (runs > 0 /\ ~HasBlockSyntax(text)) =>
    /\ pc = "idle" /\ status = "done"
    /\ ret = <<0, 0>>
    /\ rendered = <<>> /\ files = files0
    /\ writes = 0 /\ backups = 0 /\ doc = text

C6_Witness ==
  /\ runs > 0 /\ ~HasBlockSyntax(text)
  /\ mode = "render_replace" /\ ~dry_run /\ force /\ backup
  /\ \E i \in 1 .. (Len(text) - 1) : text[i].k = "F" /\ text[i + 1].k = "M"

RECURSIVE SubstFromRight(_, _, _)
\* the text with the spans of blocks 1..k replaced by their image lines, the
\* last span first, so that no offset in use has been moved
SubstFromRight(t, bl, k) ==
  IF k = 0 THEN t
  ELSE SubstFromRight(
         SubSeq(t, 1, bl[k].start)
           \o <<ImgTok(ImageName(k, TokenDigest(bl[k].code), fmt), RelBase(images_dir_rel)), NL>>
           \o SubSeq(t, bl[k].end + 1, Len(t)),
         bl, k - 1)

NoLinks(t) == \A j \in 1 .. Len(t) : t[j].k \notin {"IMG", "MARK"}

\* every block of a replace run on a text without marker or link was associated
ReplacedAll ==
  /\ Returned /\ mode = "render_replace" /\ ~dry_run
  /\ Len(images_written) = Len(blocks)
  /\ NoLinks(text)

\* C7: span non-interference in replace mode.  The document is the text read
\* with each block span, at its offsets in that text, replaced by the one
\* image line of that block.
C7_SpanNonInterference ==
  ReplacedAll => doc = SubstFromRight(text, blocks, Len(blocks))

C7_Witness ==
  /\ ReplacedAll /\ Len(blocks) = 2
  /\ blocks[1].end < blocks[2].start
  /\ blocks[1].code # blocks[2].code

(***************************************************************************)
(* C8: the embedded path of each placement, under SpecPath.                *)
(***************************************************************************)
PerFilePlacement == pin.given /\ Lower(Strip(pin.dir)) = <<"PF">>

HerePlacement == pin.given /\ Strip(pin.dir) \in {<<>>, <<".">>}

DirPlacement == pin.given /\ ~PerFilePlacement /\ ~HerePlacement

GlobalPlacement == ~pin.given

\* the number of leading components the shared directory and the
\* document's directory have in common
Shared ==
  Max({k \in 0 .. Min({Len(pin.base), Len(pin.docdir)}) :
         SubSeq(pin.base, 1, k) = SubSeq(pin.docdir, 1, k)})

RECURSIVE Slashed(_)
\* every component followed by "/"
Slashed(parts) ==
  IF parts = <<>> THEN <<>> ELSE Head(parts) \o <<"/">> \o Slashed(Tail(parts))

\* the relative path from the document's directory to the shared
\* directory, as components
Climb ==
  [k \in 1 .. (Len(pin.docdir) - Shared) |-> <<".", ".">>]
    \o SubSeq(pin.base, Shared + 1, Len(pin.base))

\* the components of the directory the user gave: the maximal runs without
\* a separator of the host, the runs that are "." left out
ComponentAt(k) ==
  LET d == pin.dir
      last == Max({j \in k .. Len(d) :
                     \A x \in k .. j : d[x] \notin Seps(pin.host)})
  IN SubSeq(d, k, last)

ComponentStarts ==
  LET d == pin.dir
  IN {k \in 1 .. Len(d) :
        /\ d[k] \notin Seps(pin.host)
        /\ (k = 1 \/ d[k - 1] \in Seps(pin.host))
        /\ ComponentAt(k) # <<".">>}

RECURSIVE SlashedFrom(_)
SlashedFrom(starts) ==
  IF starts = {} THEN <<>>
  ELSE LET k == Min(starts)
       IN ComponentAt(k) \o <<"/">> \o SlashedFrom(starts \ {k})

OnlyForwardSlashes == \A k \in 1 .. Len(pout) : pout[k] \in Seps(pin.host) => pout[k] = "/"

\* C8 as stated: the embedded path is {stem}_images/{filename} for the
\* per-file sibling placement, {filename} for the empty or "." placement,
\* {dir}/{filename} for an explicit directory dir, and the relative path to
\* the shared directory followed by /{filename} for the global placement;
\* its only separators are forward slashes.
C8_PlacementLiteral ==
  pdone =>
    /\ PerFilePlacement => pout = <<"STEM", "_images", "/", "NAME">>
    /\ HerePlacement => pout = <<"NAME">>
    /\ DirPlacement => pout = pin.dir \o <<"/", "NAME">>
    /\ GlobalPlacement =>
         pout = (IF Climb = <<>> THEN <<".", "/">> ELSE Slashed(Climb)) \o <<"NAME">>
    /\ OnlyForwardSlashes

\* C8 amended: as stated, but the explicit directory appears with the
\* host's separators written as "/" and without its empty and "."
\* components, and a directory or a relative path with no component left
\* (the shared directory is the document's directory) gives {filename} alone.
C8_PlacementNormalised ==
  pdone =>
    /\ PerFilePlacement => pout = <<"STEM", "_images", "/", "NAME">>
    /\ HerePlacement => pout = <<"NAME">>
    /\ DirPlacement => pout = SlashedFrom(ComponentStarts) \o <<"NAME">>
    /\ GlobalPlacement => pout = Slashed(Climb) \o <<"NAME">>
    /\ OnlyForwardSlashes

\* an explicit directory written with a trailing separator, and a Windows
\* host given a directory written with a backslash
C8_Witness ==
  /\ pdone
  /\ pin.given
  /\ pin.host = "nt"
  /\ pin.dir = <<"a", "\\", "a", "/">>
  /\ pout = <<"a", "/", "a", "/", "NAME">>

(***************************************************************************)
(* C10: where a block closes and what its source is, under SpecLocate.     *)
(***************************************************************************)
\* the offset of the line break that ends the opening fence line
OpeningBreak(b) ==
  Min({p \in (b.start + 2) .. (Len(ldoc) - 1) : ldoc[p + 1].k = "NL"})

\* the offset of the closing fence: the last fence inside the match
ClosingFence(b) == Max({j \in 0 .. (b.end - 1) : ldoc[j + 1].k = "F"})

\* the fence at offset f is alone on its line, but for blanks after it
BareFence(f) ==
  \E e \in (f + 1) .. Len(ldoc) :
    /\ \A x \in (f + 1) .. (e - 1) : ldoc[x + 1].k = "SP"
    /\ (e = Len(ldoc) \/ ldoc[e + 1].k = "NL")

\* C10: every block closes at a line that is three backticks alone, and its
\* source is the exact text between the opening fence line and the closing
\* fence line.
C10_ClosesAtBareFence ==
  ldone =>
    \A k \in 1 .. Len(lblocks) :
      LET b == lblocks[k]
      IN /\ BareFence(ClosingFence(b))
         /\ b.code = SubSeq(ldoc, OpeningBreak(b) + 2, ClosingFence(b) - 1)

(***************************************************************************)
(* C9: the names of two sources, under SpecName.                           *)
(***************************************************************************)
\* the first 10 hexadecimal digits of the SHA-1 digest of the UTF-8 text of
\* each source, as hashlib gives them
Sha1Prefix(s) ==
  CASE
   s = SrcEmpty -> <<13, 10, 3, 9, 10, 3, 14, 14, 5, 14>>
    [] s = SrcGraph -> <<13, 6, 3, 12, 13, 4, 6, 8, 3, 0>>
    [] s = SrcGraphSpace -> <<15, 4, 2, 12, 11, 14, 8, 11, 4, 0>>
    [] s = SrcAccent -> <<13, 9, 10, 6, 5, 5, 2, 15, 4, 8>>
    [] s = SrcTabsA -> <<6, 2, 12, 9, 10, 14, 14, 12, 5, 9>>
    [] s = SrcTabsB -> <<6, 2, 12, 9, 10, 14, 14, 12, 5, 9>>

Conflict(a) ==
  \/ a.out_dir /\ a.images_dir
  \/ a.replace /\ a.add
  \/ a.render /\ a.export

\* C11: when the command line holds a conflicting pair of options (a global
\* output directory with a per-file images directory, --replace with --add,
\* --render with --export), main ends with an error and no document is
\* read, rendered or written: process_file is never entered.
C11_ConflictsRejected ==
  Conflict(margs) =>
    /\ mpc \notin {"loop", "call"}
    /\ runs = 0
    /\ mexit \notin {"0", "raised"}

\* a document of the batch that can be read and written
Sound(j) == mbatch[j].readable /\ mbatch[j].writable

\* C12: when main has ended and was not stopped by its own argument or
\* renderer checks, every document of the batch that can be read and
\* written has been processed, whatever happened to the other documents.
\* (Runs as a script with --backup are left out: there process_file raises
\* for a reason that is not a filesystem failure.)
C12_BatchIsolated ==
  (mpc = "done" /\ mexit \notin {"none", "2", "usage"} /\ ~(margs.backup /\ asScript)) =>
    \A j \in 1 .. Len(mbatch) : Sound(j) => mdone[j] = "done"

(***************************************************************************)
(* Claims about the loop over the blocks and the write-back.               *)
(***************************************************************************)
\* render_mermaid was called for block k in the current run
RenderedBlock(k) == \E i \in 1 .. Len(rendered) : rendered[i] = k

\* block k has an entry in images_written
Associated(k) ==
  \E i \in 1 .. Len(images_written) : images_written[i].start = blocks[k].start

\* C13: skip/force policy.  Outside a dry run the renderer is called for a
\* handled block exactly when its image file did not exist at the start of
\* the run or force is set, and for no block twice; a block skipped because
\* its image exists is associated, and when the run has rewritten the
\* document the document holds the image reference of that block.
C13_SkipForcePolicy ==
  /\ (runs > 0 /\ ~dry_run) =>
       \A k \in 1 .. Len(outcomes) :
          RenderedBlock(k) <=> (NameOf(k) \notin files0 \/ force)
  /\ \A i, j \in 1 .. Len(rendered) : rendered[i] = rendered[j] => i = j
  /\ \A k \in 1 .. Len(outcomes) : outcomes[k] = "skip" => Associated(k)
  /\ (Returned /\ mode \in RewriteModes /\ ~dry_run) =>
       \A k \in 1 .. Len(outcomes) :
          outcomes[k] = "skip" => HasImage(doc, NameOf(k))

\* C14: write-back discipline.  In a run the document is written at most
\* once; until it is written it is the text read at the start and no backup
\* exists; it is written only when every block has been handled, in mode
\* render_replace or render_keep, with the text the mode computed, which
\* differs from the text read; a backup only comes with the write; in mode
\* export_only the document is never written.
C14_WriteBackDiscipline ==
  runs > 0 =>
    /\ writes <= 1
    /\ backups <= writes
    /\ writes = 0 => doc = text
    /\ writes = 1 =>
         /\ pc = "idle" /\ status = "done"
         /\ Len(outcomes) = Len(blocks)
         /\ mode \in RewriteModes
         /\ doc = NewText /\ doc # text
    /\ mode = "export_only" => (writes = 0 /\ backups = 0)

C14_Witness ==
  /\ writes = 1 /\ backups = 1 /\ doc # text
  /\ Len(blocks) = 2 /\ \E k \in 1 .. 2 : outcomes[k] = "err"

\* the number of handled blocks whose outcome is in os
CountOutcomes(os) == Cardinality({k \in 1 .. Len(outcomes) : outcomes[k] \in os})

C16_DryRunNoSideEffects ==
  (runs > 0 /\ dry_run) =>
    /\ rendered = <<>>
    /\ files = files0
    /\ backups = 0
    /\ writes = 0
    /\ doc = text
    /\ status # "raised"

C16_Witness ==
  /\ Returned /\ dry_run /\ backup /\ asScript
  /\ mode \in RewriteModes /\ NewText # text
  /\ Len(blocks) = 2 /\ Len(images_written) = 2

RECURSIVE AppendFromRight(_, _, _)
\* the text with, behind the span of each of the entries 1..k, a newline,
\* the image line of the entry and the marker line with the same file name,
\* the last span first, so that no offset in use has been moved
AppendFromRight(t, iw, k) ==
  IF k = 0 THEN t
  ELSE AppendFromRight(
         SubSeq(t, 1, iw[k].end)
           \o <<NL, ImgTok(iw[k].name, RelBase(images_dir_rel)), NL,
                MarkTok(iw[k].name), NL>>
           \o SubSeq(t, iw[k].end + 1, Len(t)),
         iw, k - 1)

\* a completed append run on a text without marker or link
AppendedFresh ==
  /\ Returned /\ mode = "render_keep" /\ ~dry_run
  /\ NoLinks(text)

\* C17: append-mode output shape.  After a render_keep run on a document
\* without marker or image link the document is the text read with, directly
\* behind the span of every associated block, a newline, one image line of
\* that block and the marker line carrying the same file name: every span is
\* kept verbatim, no block gets a second append and nothing else changes.
C17_AppendShape ==
  AppendedFresh =>
    /\ doc = AppendFromRight(text, images_written, Len(images_written))
    /\ \A k \in 1 .. Len(blocks) :
         Associated(k) =>
           /\ Cardinality({j \in 1 .. Len(doc) :
                doc[j] = ImgTok(NameOf(k), RelBase(images_dir_rel))}) = 1
           /\ Cardinality({j \in 1 .. Len(doc) : doc[j] = MarkTok(NameOf(k))}) = 1

C17_Witness ==
  /\ AppendedFresh /\ Len(blocks) = 2 /\ Len(images_written) = 2
  /\ blocks[1].end < blocks[2].start
  /\ writes = 1

\* the number of image links with the file name n in the text t
Links(t, n) == Cardinality({j \in 1 .. Len(t) : t[j].k = "IMG" /\ t[j].name = n})

\* the latest run and the one before it completed in mode m, outside dry run
TwoRuns(m) ==
  /\ Returned /\ mode = m /\ ~dry_run
  /\ prev.status = "done" /\ prev.mode = m /\ ~prev.dry_run

\* C18: in a sequence of replace-mode runs in which renders may fail and
\* later succeed, every image link the earlier run left in the document is
\* still in the document after the later run.
C18_LinksSurviveReplace ==
  TwoRuns("render_replace") =>
    \A j \in 1 .. Len(text) :
       text[j].k = "IMG" => Links(doc, text[j].name) >= Links(text, text[j].name)

\* behind block k of the text t there is an image link with the file name n
LinkBehind(t, k, n) ==
  LET bl == find_mermaid_blocks(t)
  IN /\ k <= Len(bl)
     /\ \E j \in (bl[k].end + 1) .. Len(t) : t[j].k = "IMG" /\ t[j].name = n

\* C19: after a sequence of append-mode runs in which renders may fail and
\* later succeed, every block the latest run associated with an image is
\* followed in the document by an image link with that block's current
\* file name.
C19_AssociatedBlocksLinked ==
  (Returned /\ mode = "render_keep" /\ ~dry_run
     /\ (prev.status # "none" => prev.mode = "render_keep")) =>
    \A k \in 1 .. Len(blocks) : Associated(k) => LinkBehind(doc, k, NameOf(k))

\* the text a replace-mode run leaves of the text t when the image directory
\* is empty and every block renders
DirectReplace(t) ==
  LET iw == AssocOf(find_mermaid_blocks(t), 1, {}, {})
  IN replace_blocks_with_images(t, iw, RelsOf(iw))

\* an append-mode run and then a replace-mode run, both completed, every
\* block rendered
KeepThenReplace ==
  /\ Returned /\ runs = 2
  /\ mode = "render_replace" /\ ~dry_run /\ fails = {}
  /\ prev.status = "done" /\ prev.mode = "render_keep" /\ ~prev.dry_run
  /\ prev.fails = {}

\* C20: mode switch equivalence.  When every block renders, an append-mode
\* run followed by a replace-mode run leaves the text that a replace-mode
\* run on the original document leaves.
C20_KeepThenReplace ==
  KeepThenReplace => doc = DirectReplace(prev.text)

\* the text of the span of block k of the run
SpanText(k) == SubSeq(text, blocks[k].start + 1, blocks[k].end)

\* the marker comments with the file name n in the text t
Markers(t, n) == Cardinality({j \in 1 .. Len(t) : t[j] = MarkTok(n)})

\* the document holds the span of block k as it was read, and the locator
\* finds a block with that span and that source there
LeftInPlace(k) ==
  \E j \in 1 .. Len(find_mermaid_blocks(doc)) :
     LET b == find_mermaid_blocks(doc)[j]
     IN /\ b.code = blocks[k].code
        /\ SubSeq(doc, b.start + 1, b.end) = SpanText(k)

\* a completed run that rewrites the document, with a block whose render
\* failed
RewrittenWithFailure ==
  /\ Returned /\ mode \in RewriteModes /\ ~dry_run
  /\ \E k \in 1 .. Len(outcomes) : outcomes[k] = "err"

\* C21: a block whose render failed is left in place.  After a replace-mode
\* or append-mode run the document holds the span of every failed block as
\* it was read, the locator finds the block there again, and the run added
\* no image line and no marker with the file name of that block.
C21_FailedBlockLeftInPlace ==
  RewrittenWithFailure =>
    \A k \in 1 .. Len(outcomes) :
       outcomes[k] = "err" =>
         /\ LeftInPlace(k)
         /\ Links(doc, NameOf(k)) <= Links(text, NameOf(k))
         /\ Markers(doc, NameOf(k)) <= Markers(text, NameOf(k))

============================================================================
